---- MODULE Spec2Model ----
(***************************************************************************)
(* SmartChat (newchatbot.py): a Streamlit script that is re-run from top   *)
(* to bottom on every interaction of every browser session.  The model    *)
(* holds the two files on disk (intents.json, chat_history.csv), the      *)
(* process-wide st.cache_resource entry of initialize_models, and for     *)
(* every session its st.session_state.history and its position inside a   *)
(* chat turn (save_conversation is a read / concatenate / write-back      *)
(* sequence on the shared CSV file).                                       *)
(***************************************************************************)
EXTENDS Integers, Sequences, FiniteSets, TLC

\* ------------------------------------------------------------------ bounds
MaxTurns == 2
MaxClock == 1

Sessions == {"s1", "s2"}

\* ------------------------------------------------------------- small helpers
Range(q) == {q[i] : i \in 1..Len(q)}

Last(q) == q[Len(q)]

\* ------------------------------------------------------------- text domain
\* Texts a user can submit through st.chat_input (never empty: line 147).
ChatInputs == {"Hi", "NA"}

\* Texts chatbot_response may be handed as a function.
AllInputs == ChatInputs \cup {"", "?!", "asdkjasd"}

\* str.lower() on the texts of the domain.
Lower(s) ==
  CASE s = "Hi" -> "hi"
    [] s = "NA" -> "na"
    [] OTHER -> s

\* nltk.word_tokenize on the (lower-cased) texts of the domain.
word_tokenize(s) ==
  CASE s = "" -> <<>>
    [] s = "??" -> <<"?", "?">>
    [] s = "?!" -> <<"?", "!">>
    [] OTHER -> <<s>>

\* ------------------------------------------------------------ intents.json
Intent(t, p, r) == [tag |-> t, patterns |-> p, responses |-> r]

CatScenario ==
  << Intent("greeting", <<"hi", "hello">>, <<"Hey there!">>),
     Intent("fallback", <<"??">>, <<"I don't understand.">>) >>

CatNoFallback ==
  << Intent("greeting", <<"hi">>, <<"Hello!", "Hey there!">>),
     Intent("goodbye", <<"bye">>, <<"See you!">>) >>

CatNoPatterns ==
  << Intent("greeting", <<>>, <<"Hey there!">>),
     Intent("fallback", <<>>, <<"I don't understand.">>) >>

CatBadRecord ==
  << Intent("greeting", <<"hi">>, <<>>),
     Intent("goodbye", <<"bye">>, <<"See you!">>) >>

CatOneTag ==
  << Intent("greeting", <<"hi">>, <<"Hey there!">>) >>

JsonFile(c) == [kind |-> "json", intents |-> c]

\* What INTENTS_FILE can hold: absent, not JSON, JSON that is no object,
\* {"intents": []}, or {"intents": [...]}.
IntentsFiles ==
  { [kind |-> "missing", intents |-> <<>>],
    [kind |-> "invalid_json", intents |-> <<>>],
    [kind |-> "not_object", intents |-> <<>>],
    JsonFile(<<>>), JsonFile(CatScenario), JsonFile(CatNoFallback),
    JsonFile(CatNoPatterns), JsonFile(CatBadRecord), JsonFile(CatOneTag) }

\* ---------------------------------------------------------------- constants
Apology == "Oops! Something went wrong."

fallback_responses ==
  << "I'm not sure I understand. Could you rephrase?",
     "Sorry, I didn't catch that. Could you explain further?",
     "I'm still learning. Please provide more details." >>

\* pandas' default NA strings (read_csv, keep_default_na=True), those that
\* a text of the domain or a written NaN can produce.
NAValues == {"", "NA", "NaN", "nan", "null", "None", "N/A", "n/a", "NULL"}

\* -------------------------------------------------------------------- state
VARIABLES
  intentsFile,   \* INTENTS_FILE on disk
  historyFile,   \* HISTORY_FILE on disk: [exists, rows], rows of field text
  models,        \* the st.cache_resource entry of initialize_models
  fits,          \* how many times vectorizer/model were fit (lines 73-74)
  history,       \* st.session_state.history, per session
  pc,            \* per session: idle | save | read | write
  entry,         \* per session: save_conversation's arguments / new_entry
  updated_df,    \* per session: save_conversation's history_df + new_entry
  now,           \* the clock datetime.datetime.now() reads
  last           \* what the last step did (observation only)

vars == <<intentsFile, historyFile, models, fits, history, pc, entry,
          updated_df, now, last>>

NoFile == [exists |-> FALSE, rows |-> <<>>]

NoModels == [fitted |-> FALSE, vocabulary |-> {}, classes |-> {}, trainedOn |-> <<>>]

NoEntry == [User |-> "", Response |-> "", Timestamp |-> 0, calledAt |-> 0, shown |-> <<>>]

NoEvent ==
  [op |-> "none", session |-> "", input |-> "", catalog |-> <<>>, tag |-> "",
   out |-> "", raised |-> FALSE, calledAt |-> 0, prior |-> <<>>, shown |-> <<>>]

\* -------------------------------------------------------------- load_intents
\* Lines 37-51: the catalog of this script run, or st.stop(), or an
\* exception nobody catches (json.load gave no dict: .get raises).
load_intents(file) ==
  CASE file.kind = "missing" -> [status |-> "ok", intents |-> <<>>]
    [] file.kind = "invalid_json" -> [status |-> "ok", intents |-> <<>>]
    [] file.kind = "not_object" -> [status |-> "raised", intents |-> <<>>]
    [] OTHER ->
         IF file.intents = <<>>
         THEN [status |-> "stopped", intents |-> <<>>]
         ELSE [status |-> "ok", intents |-> file.intents]

\* ---------------------------------------------------------- initialize_models
\* Lines 61-65: one tag per pattern, patterns lower-cased.
TrainingTags(intents) ==
  {intents[i].tag : i \in {j \in 1..Len(intents) : intents[j].patterns # <<>>}}

TrainingPatterns(intents) ==
  UNION {{Lower(p) : p \in Range(intents[i].patterns)} : i \in 1..Len(intents)}

\* Lines 71-75: TfidfVectorizer.fit_transform learns the vocabulary,
\* LogisticRegression.fit the classes.  The weights are not modelled.
FitModels(intents) ==
  [fitted |-> TRUE,
   vocabulary |-> UNION {Range(word_tokenize(p)) : p \in TrainingPatterns(intents)},
   classes |-> TrainingTags(intents),
   trainedOn |-> intents]

\* @st.cache_resource with the unhashed parameter _intents: one entry for the
\* whole process, whatever catalog the caller passes.  Without an entry the
\* body runs: st.stop() on no training data (67-69), ValueError from
\* LogisticRegression.fit on fewer than two classes (74).
initialize_models(cache, intents) ==
  IF cache.fitted THEN [status |-> "ok", models |-> cache, fit |-> FALSE]
  ELSE IF TrainingTags(intents) = {} THEN [status |-> "stopped", models |-> cache, fit |-> FALSE]
  ELSE IF Cardinality(TrainingTags(intents)) < 2
       THEN [status |-> "raised", models |-> cache, fit |-> FALSE]
  ELSE [status |-> "ok", models |-> FitModels(intents), fit |-> TRUE]

\* Lines 53 and 77: the top of every script run.
Startup(file, cache) ==
  LET l == load_intents(file)
      m == initialize_models(cache, l.intents)
  IN IF l.status # "ok"
     THEN [status |-> l.status, intents |-> <<>>, models |-> cache, fit |-> FALSE]
     ELSE [status |-> m.status, intents |-> l.intents, models |-> m.models, fit |-> m.fit]

\* ----------------------------------------------------------- chatbot_response
\* Line 90: vectorizer.transform drops the tokens outside the vocabulary.
transform(m, text) == {t \in Range(word_tokenize(Lower(text))) : t \in m.vocabulary}

\* Line 91: clf.predict returns the best-scoring class; which one depends on
\* weights that are not modelled, so any class of the classifier may come out
\* (also for an all-zero vector).
predict(m, features) == m.classes

Returned(s) == [raised |-> FALSE, value |-> s]

Raised == [raised |-> TRUE, value |-> ""]

\* random.choice(seq): IndexError on an empty sequence.
choice(q) == IF q = <<>> THEN {Raised} ELSE {Returned(q[i]) : i \in 1..Len(q)}

\* A loop that returns from its first iteration, whatever the record's tag.
MatchFirstRecord(intents, tag) == {i \in 1..Len(intents) : i = 1}

\* Lines 93-94: the record the loop stops at, the first one carrying the tag.

MatchTag(intents, tag) ==
  {i \in 1..Len(intents) :
     /\ intents[i].tag = tag
     /\ \A j \in 1..(i - 1) : intents[j].tag # tag}

\* A lookup that never finds the "fallback" record.
NoFallbackLookup(intents) == {}

\* Line 98: next(intent for intent in ... if tag == "fallback", None).

FallbackRecord(intents) == MatchTag(intents, "fallback")

\* Lines 93-99: the outcomes of response selection for a predicted tag.
SelectResponse(intents, tag) ==
  LET hit == MatchTag(intents, tag)
      fb == FallbackRecord(intents)
  IN IF hit # {} THEN UNION {choice(intents[i].responses) : i \in hit}
     ELSE IF fb # {} THEN UNION {choice(intents[i].responses) : i \in fb}
     ELSE choice(fallback_responses)

\* The body without its except clause: a failure reaches the caller.
NoExcept(outcomes) == outcomes

\* Lines 84 and 100-102: try / except Exception around the body.

Guarded(outcomes) == {IF o.raised THEN Returned(Apology) ELSE o : o \in outcomes}

\* Lines 82-102: every (predicted tag, outcome) chatbot_response can produce.
chatbot_response(user_input, intents, m) ==
  UNION {{[tag |-> t, outcome |-> o] : o \in Guarded(SelectResponse(intents, t))} :
           t \in predict(m, transform(m, user_input))}

\* ------------------------------------------------------------ chat_history.csv
\* A DataFrame cell of a text column: a string or NaN.
Str(s) == [nan |-> FALSE, s |-> s]

NaN == [nan |-> TRUE, s |-> ""]

\* pd.read_csv on one field of a text column.
ParseField(f) == IF f \in NAValues THEN NaN ELSE Str(f)

\* DataFrame.to_csv on one cell (na_rep = "").
FormatCell(c) == IF c.nan THEN "" ELSE c.s

\* pd.read_csv(HISTORY_FILE): lines 116 and 168.
read_csv(rows) ==
  [i \in 1..Len(rows) |->
     [User |-> ParseField(rows[i].User), Response |-> ParseField(rows[i].Response),
      Timestamp |-> rows[i].Timestamp]]

\* DataFrame.to_csv(HISTORY_FILE, index=False): line 120.
to_csv(df) ==
  [i \in 1..Len(df) |->
     [User |-> FormatCell(df[i].User), Response |-> FormatCell(df[i].Response),
      Timestamp |-> df[i].Timestamp]]

\* Lines 110-114.
NewEntry(e) == [User |-> Str(e.User), Response |-> Str(e.Response), Timestamp |-> e.Timestamp]

\* --------------------------------------------------------------------- Init
\* The state once the module has been imported and no script run has got past
\* line 31: no history file, nothing cached, empty session histories.
Start ==
  /\ historyFile = NoFile
  /\ models = NoModels
  /\ fits = 0
  /\ history = [s \in Sessions |-> <<>>]
  /\ pc = [s \in Sessions |-> "idle"]
  /\ entry = [s \in Sessions |-> NoEntry]
  /\ updated_df = [s \in Sessions |-> <<>>]
  /\ now = 0
  /\ last = NoEvent

\* Any intents.json.
Init ==
  /\ intentsFile \in IntentsFiles
  /\ Start

\* The intents.json of the specification's scenario, never edited.
InitScenario ==
  /\ intentsFile = JsonFile(CatScenario)
  /\ Start

\* ------------------------------------------------------------------ actions
\* The effect of the top of a script run on the process-wide cache.
RunTop(st) ==
  /\ models' = st.models
  /\ fits' = IF st.fit THEN fits + 1 ELSE fits

\* The append left for after save_conversation: nothing is appended before.
AppendAfterSave(h, user_input, response, timestamp) == h

\* Lines 152-155: both messages of the turn are appended before the save.

ExtendHistory(h, user_input, response, timestamp) ==
  h \o << [role |-> "user", content |-> user_input, timestamp |-> timestamp],
          [role |-> "assistant", content |-> response, timestamp |-> timestamp] >>

\* What a call of chatbot_response did: the catalog it searched, the tag
\* predicted, what came back.
RespondEvent(s, user_input, intents, r) ==
  [NoEvent EXCEPT !.op = "respond", !.session = s, !.input = user_input,
     !.catalog = intents, !.tag = r.tag, !.out = r.outcome.value,
     !.raised = r.outcome.raised]

\* A script run that reaches a call chatbot_response(user_input): lines 53,
\* 77 and 82-102, and nothing of the chat page around the call.
Respond(user_input) ==
  /\ LET st == Startup(intentsFile, models)
     IN /\ RunTop(st)
        /\ IF st.status # "ok"
           THEN last' = NoEvent
           ELSE \E r \in chatbot_response(user_input, st.intents, st.models) :
                  last' = RespondEvent("s1", user_input, st.intents, r)
  /\ UNCHANGED <<intentsFile, historyFile, history, pc, entry, updated_df, now>>

\* A script run with a submitted chat message (menu "Chat"), up to the call
\* of save_conversation on line 158.
ChatTurn(s, user_input) ==
  /\ pc[s] = "idle"
  /\ Len(history[s]) < 2 * MaxTurns
  /\ Len(historyFile.rows) < MaxTurns
  /\ LET st == Startup(intentsFile, models)
     IN /\ RunTop(st)
        /\ IF st.status # "ok"
           THEN /\ last' = NoEvent
                /\ UNCHANGED <<history, pc, entry>>
           ELSE \E r \in chatbot_response(user_input, st.intents, st.models) :
                  /\ last' = RespondEvent(s, user_input, st.intents, r)
                  /\ IF r.outcome.raised
                     THEN UNCHANGED <<history, pc, entry>>
                     ELSE /\ history' = [history EXCEPT ![s] =
                                ExtendHistory(@, user_input, r.outcome.value, now)]
                          /\ entry' = [entry EXCEPT ![s] =
                                [User |-> user_input, Response |-> r.outcome.value,
                                 Timestamp |-> 0, calledAt |-> now,
                                 shown |-> history[s]]]
                          /\ pc' = [pc EXCEPT ![s] = "save"]
  /\ UNCHANGED <<intentsFile, historyFile, updated_df, now>>

\* save_conversation, lines 109-115 and 118-119: the timestamp, new_entry and
\* the os.path.exists test.
SaveBegin(s) ==
  /\ pc[s] = "save"
  /\ entry' = [entry EXCEPT ![s].Timestamp = now]
  /\ IF historyFile.exists
     THEN /\ pc' = [pc EXCEPT ![s] = "read"]
          /\ UNCHANGED updated_df
     ELSE /\ pc' = [pc EXCEPT ![s] = "write"]
          /\ updated_df' = [updated_df EXCEPT ![s] = <<NewEntry(entry'[s])>>]
  /\ last' = NoEvent
  /\ UNCHANGED <<intentsFile, historyFile, models, fits, history, now>>

\* The exception of a failed read or write leaves save_conversation,
\* chat_interface and main: the script run ends without st.rerun().
SaveFailed(s) ==
  /\ pc' = [pc EXCEPT ![s] = "idle"]
  /\ last' = [NoEvent EXCEPT !.op = "save_failed", !.session = s,
                !.input = entry[s].User, !.out = entry[s].Response,
                !.raised = TRUE, !.calledAt = entry[s].calledAt,
                !.shown = entry[s].shown]
  /\ entry' = [entry EXCEPT ![s] = NoEntry]
  /\ updated_df' = [updated_df EXCEPT ![s] = <<>>]
  /\ UNCHANGED <<intentsFile, historyFile, models, fits, history, now>>

\* Lines 116-117: pd.read_csv and pd.concat; FileNotFoundError when the file
\* was removed since the test of line 115.
SaveRead(s) ==
  /\ pc[s] = "read"
  /\ Len(historyFile.rows) <= MaxTurns
  /\ IF historyFile.exists
     THEN /\ updated_df' = [updated_df EXCEPT ![s] =
                read_csv(historyFile.rows) \o <<NewEntry(entry[s])>>]
          /\ pc' = [pc EXCEPT ![s] = "write"]
          /\ last' = NoEvent
          /\ UNCHANGED <<intentsFile, historyFile, models, fits, history, entry, now>>
     ELSE SaveFailed(s)

\* Line 120 and the st.rerun() of line 159: the file is overwritten with
\* updated_df, and the script runs again from the top.
SaveWrite(s) ==
  /\ pc[s] = "write"
  /\ historyFile' = [exists |-> TRUE, rows |-> to_csv(updated_df[s])]
  /\ RunTop(Startup(intentsFile, models))
  /\ pc' = [pc EXCEPT ![s] = "idle"]
  /\ last' = [NoEvent EXCEPT !.op = "saved", !.session = s,
                !.input = entry[s].User, !.out = entry[s].Response,
                !.calledAt = entry[s].calledAt, !.prior = historyFile.rows]
  /\ entry' = [entry EXCEPT ![s] = NoEntry]
  /\ updated_df' = [updated_df EXCEPT ![s] = <<>>]
  /\ UNCHANGED <<intentsFile, history, now>>

\* Line 120 when the file cannot be opened for writing (OSError).
SaveWriteError(s) ==
  /\ pc[s] = "write"
  /\ SaveFailed(s)

\* The "Clear History" button: clear_chat_history (lines 125-130) runs as the
\* on_click callback, then the script runs from the top.
ClearHistory(s) ==
  /\ pc[s] = "idle"
  /\ history' = [history EXCEPT ![s] = <<>>]
  /\ historyFile' = NoFile
  /\ RunTop(Startup(intentsFile, models))
  /\ last' = NoEvent
  /\ UNCHANGED <<intentsFile, pc, entry, updated_df, now>>

\* A script run with no chat message: the first page load, a change of menu,
\* the History and About pages.
ScriptRun(s) ==
  /\ pc[s] = "idle"
  /\ RunTop(Startup(intentsFile, models))
  /\ last' = NoEvent
  /\ UNCHANGED <<intentsFile, historyFile, history, pc, entry, updated_df, now>>

\* Somebody edits, replaces or removes intents.json while the process runs.
EditIntentsFile(f) ==
  /\ f # intentsFile
  /\ intentsFile' = f
  /\ last' = NoEvent
  /\ UNCHANGED <<historyFile, models, fits, history, pc, entry, updated_df, now>>

\* Time passes.
Tick ==
  /\ now < MaxClock
  /\ now' = now + 1
  /\ last' = NoEvent
  /\ UNCHANGED <<intentsFile, historyFile, models, fits, history, pc, entry, updated_df>>

\* What one browser session does while the disk takes every write.
SessionOps(s, inputs) ==
  \/ \E u \in inputs : ChatTurn(s, u)
  \/ SaveBegin(s)
  \/ SaveRead(s)
  \/ SaveWrite(s)
  \/ ClearHistory(s)
  \/ ScriptRun(s)

\* Everything one browser session can do.
SessionStep(s, inputs) ==
  \/ SessionOps(s, inputs)
  \/ SaveWriteError(s)

\* The program as the specification describes it: one session, one script run
\* at a time, with intents.json and the clock in the environment's hands.
Next ==
  \/ SessionStep("s1", ChatInputs)
  \/ \E f \in IntentsFiles : EditIntentsFile(f)
  \/ Tick

Spec == Init /\ [][Next]_vars

\* The call surface respond(text) on its own: script runs that call
\* chatbot_response with any text, while intents.json changes on disk.
NextRespond ==
  \/ \E u \in AllInputs : Respond(u)
  \/ ScriptRun("s1")
  \/ \E f \in IntentsFiles : EditIntentsFile(f)

SpecRespond == Init /\ [][NextRespond]_vars

\* One session, the scenario's intents.json left alone, and a disk on which
\* no read or write fails: chat turns, history views and clears only.
NextReliableDisk ==
  \/ SessionOps("s1", ChatInputs)
  \/ Tick

SpecReliableDisk == InitScenario /\ [][NextReliableDisk]_vars

\* Several browser sessions of one server process: each runs the script in a
\* thread of its own, and all share chat_history.csv.
NextConcurrent == \E s \in Sessions : SessionStep(s, {"Hi"})

SpecConcurrent == InitScenario /\ [][NextConcurrent]_vars

\* ------------------------------------------------------------------- claims
\* The tags of a catalog's records.
CatalogTags(intents) == {intents[i].tag : i \in 1..Len(intents)}

\* The records of a catalog that carry a tag and meet the IntentRecord
\* invariant on responses (at least one response).
RecordsTagged(intents, tag) ==
  {i \in 1..Len(intents) : intents[i].tag = tag /\ intents[i].responses # <<>>}

\* C1: chatbot_response, called with any text (the empty string, pure
\* punctuation and out-of-vocabulary text included), never raises and returns
\* a non-empty string: a failure inside it comes back as the apology.
C1_RespondTotal ==
  last.op = "respond" => ~last.raised /\ last.out # ""

\* C1 witness: a call on the empty string whose selection failed inside and
\* came back as the apology string.
C1_Witness ==
  /\ last.op = "respond"
  /\ last.input = ""
  /\ ~last.raised
  /\ last.out = Apology

C3_AbsentTagFallback ==
  (last.op = "respond" /\ last.tag \notin CatalogTags(last.catalog)) =>
    IF "fallback" \in CatalogTags(last.catalog)
    THEN \A i \in RecordsTagged(last.catalog, "fallback") :
           ~last.raised /\ last.out \in Range(last.catalog[i].responses)
    ELSE ~last.raised /\ last.out \in Range(fallback_responses)

\* C3 witness: a predicted tag the catalog no longer holds, answered from the
\* catalog's "fallback" record.
C3_Witness ==
  /\ last.op = "respond"
  /\ last.tag \notin CatalogTags(last.catalog)
  /\ RecordsTagged(last.catalog, "fallback") # {}
  /\ last.out = "I don't understand."

\* A catalog source the startup must refuse: missing, malformed, zero records
\* or zero training examples.
Unservable(file) ==
  \/ file.kind # "json"
  \/ file.intents = <<>>
  \/ TrainingTags(file.intents) = {}

\* C4: the models are fit at most once, and a script run that finds the
\* catalog missing, malformed, empty or without training examples never calls
\* chatbot_response.
C4_NoServingWithoutCatalog ==
  /\ fits <= 1
  /\ last.op = "respond" => ~Unservable(intentsFile)

\* The turns the history view shows: read_csv of the file, without the time.
LogTurns ==
  LET df == read_csv(historyFile.rows)
  IN [i \in 1..Len(df) |-> [User |-> df[i].User, Response |-> df[i].Response]]

\* C5: after a save the last row read back carries exactly the input and the
\* response saved and a timestamp no earlier than the call, and the rows the
\* file held before are still there, unchanged and in order.
C5_LogRoundTrip ==
  last.op = "saved" =>
    LET df == read_csv(historyFile.rows)
    IN /\ Len(df) = Len(last.prior) + 1
       /\ Last(df).User = Str(last.input)
       /\ Last(df).Response = Str(last.out)
       /\ Last(df).Timestamp >= last.calledAt
       /\ SubSeq(historyFile.rows, 1, Len(last.prior)) = last.prior

\* C6: with concurrent sessions no append loses a turn: a completed save
\* leaves every row the file held just before the write, and the new one.
C6_AppendsSerialized ==
  last.op = "saved" => Len(historyFile.rows) >= Len(last.prior) + 1

\* The messages of one turn as chat_interface appends them.
IsTurnPair(h, user_input, response) ==
  /\ Len(h) >= 2
  /\ h[Len(h) - 1].role = "user"
  /\ h[Len(h) - 1].content = user_input
  /\ h[Len(h)].role = "assistant"
  /\ h[Len(h)].content = response

\* C7: a failed read or write of the log reaches the caller as an exception
\* and leaves the session history with every earlier message unchanged and
\* in order, followed by the complete pair of the current turn; the session
\* is back at rest, where the next submission is taken.
C7_FailureKeepsHistory ==
  last.op = "save_failed" =>
    LET h == history[last.session]
    IN /\ last.raised
       /\ Len(h) = Len(last.shown) + 2
       /\ SubSeq(h, 1, Len(last.shown)) = last.shown
       /\ IsTurnPair(h, last.input, last.out)
       /\ pc[last.session] = "idle"
       /\ (Len(h) < 2 * MaxTurns /\ Len(historyFile.rows) < MaxTurns)
            => ENABLED ChatTurn(last.session, "Hi")

\* C7 witness: a save failed in a session that already held an earlier turn.
C7_Witness ==
  /\ last.op = "save_failed"
  /\ Len(last.shown) = 2
  /\ Len(history[last.session]) = 4

\* Whether sequence a is a subsequence of sequence b (order kept).
RECURSIVE IsSubseq(_, _)
IsSubseq(a, b) ==
  IF a = <<>> THEN TRUE
  ELSE IF b = <<>> THEN FALSE
  ELSE IF Head(a) = Head(b) THEN IsSubseq(Tail(a), Tail(b))
  ELSE IsSubseq(a, Tail(b))

\* The turns a session history holds, as (input, response).
HistoryTurns(h) ==
  [i \in 1..(Len(h) \div 2) |->
     [User |-> Str(h[2 * i - 1].content), Response |-> Str(h[2 * i].content)]]

\* C8: in one session, at rest, every turn of the session history has a row
\* in the log with the same input and response, in the same order.
C8_HistoryInLog ==
  pc["s1"] = "idle" => IsSubseq(HistoryTurns(history["s1"]), LogTurns)

\* C9: the predicted tag is always a tag of the catalog searched, and a
\* response of the "fallback" record comes back only for the predicted tag
\* "fallback".
C9_NoAbstention ==
  last.op = "respond" =>
    /\ last.tag \in CatalogTags(last.catalog)
    /\ \A i \in RecordsTagged(last.catalog, "fallback") :
         last.out \in Range(last.catalog[i].responses) => last.tag = "fallback"

\* C10: the catalog chatbot_response searches is the catalog the cached
\* vectorizer and classifier were trained on.
C10_CatalogLoadedOnce ==
  last.op = "respond" => last.catalog = models.trainedOn

====
